---- MODULE Spec2Model ----
(***************************************************************************)
(* Time-tracking and invoicing application: the relational store and its   *)
(* seeding (database.py), the session cookie, and the request handlers     *)
(* with their role-scoped queries and aggregations (main.py).              *)
(*                                                                         *)
(* Conventions.  A table is the sequence of its rows in primary-key order; *)
(* a row is a record carrying its id.  A date is a record [y, m, d].       *)
(* Float columns are held in fixed point: hours in tenths of an hour       *)
(* (the seed rounds to one decimal), money in whole units (the seed draws  *)
(* integers).  A Python string that the code parses or formats character   *)
(* by character (a date string, a "YYYY-MM" key) is a sequence of          *)
(* one-character strings; names and statuses are atomic strings.           *)
(***************************************************************************)
EXTENDS Integers, Sequences, FiniteSets, TLC

VARIABLES
    db,        \* the database file: clients, users, projects, time_entries, invoices
    pc,        \* "boot": the process is importing main.py; "serving": requests are handled
    today0,    \* the calendar date at clock 0
    now,       \* the clock, in seconds
    cookie,    \* the browser's "session" cookie (NoCookie when absent)
    request,   \* what the last step handled: a request, or the start of the process
              \* (NoRequest when the step was neither)
    response   \* its response

vars == <<db, pc, today0, now, cookie, request, response>>

---------------------------------------------------------------------------
(* Bounds of the exploration *)

\* seeds of the pseudo-random generator explored by init_db: 0..MaxSeed
MaxSeed == 3
\* POST /timelogs requests that insert a row
MaxPosts == 1
\* clock advances
MaxTicks == 2

---------------------------------------------------------------------------
(* Generic helpers *)

Range(s) == {s[i] : i \in 1..Len(s)}

Max2(a, b) == IF a >= b THEN a ELSE b

RECURSIVE SumSeq(_)
\* Python sum(...) over a list of numbers; 0 for the empty list
SumSeq(s) == IF s = <<>> THEN 0 ELSE s[1] + SumSeq(Tail(s))

RECURSIVE MaxSeq(_, _)
\* Python max(list, default=dflt): the default only when the list is empty
MaxSeq(s, dflt) ==
    IF s = <<>> THEN dflt
    ELSE IF Len(s) = 1 THEN s[1] ELSE Max2(s[1], MaxSeq(Tail(s), dflt))

\* [f(x) for x in s if test(x)] is written SelectSeq and a sequence constructor

---------------------------------------------------------------------------
(* datetime.date *)

Date(y, m, d) == [y |-> y, m |-> m, d |-> d]

IsLeap(y) == (y % 4 = 0) /\ ((y % 100 # 0) \/ (y % 400 = 0))

DaysInMonth(y, m) ==
    IF m = 2 THEN (IF IsLeap(y) THEN 29 ELSE 28)
    ELSE IF m \in {4, 6, 9, 11} THEN 30 ELSE 31

\* date comparison (d1 < d2), (d1 >= d2)
DateLT(d1, d2) ==
    \/ d1.y < d2.y
    \/ d1.y = d2.y /\ d1.m < d2.m
    \/ d1.y = d2.y /\ d1.m = d2.m /\ d1.d < d2.d

DateGE(d1, d2) == ~DateLT(d1, d2)

\* days before January 1st of year y
DaysBeforeYear(y) ==
    (y - 1) * 365 + ((y - 1) \div 4) - ((y - 1) \div 100) + ((y - 1) \div 400)

\* days of year y before the first of month m
DaysBeforeMonth(y, m) ==
    LET common == <<0, 31, 59, 90, 120, 151, 181, 212, 243, 273, 304, 334>>
    IN  common[m] + (IF m > 2 /\ IsLeap(y) THEN 1 ELSE 0)

\* date.toordinal(): January 1st of year 1 is day 1
toordinal(dt) == DaysBeforeYear(dt.y) + DaysBeforeMonth(dt.y, dt.m) + dt.d

\* date.fromordinal(n), for n >= 1
fromordinal(n) ==
    LET n0 == n - 1
        n400 == n0 \div 146097
        r400 == n0 % 146097
        n100 == r400 \div 36524
        r100 == r400 % 36524
        n4 == r100 \div 1461
        r4 == r100 % 1461
        n1 == r4 \div 365
        r1 == r4 % 365
        year == n400 * 400 + 1 + n100 * 100 + n4 * 4 + n1
    IN  IF n1 = 4 \/ n100 = 4 THEN Date(year - 1, 12, 31)
        ELSE LET month == CHOOSE m \in 1..12 :
                              /\ DaysBeforeMonth(year, m) <= r1
                              /\ r1 < DaysBeforeMonth(year, m) + DaysInMonth(year, m)
             IN  Date(year, month, r1 - DaysBeforeMonth(year, month) + 1)

\* date + timedelta(days=n), n of either sign
AddDays(dt, n) == fromordinal(toordinal(dt) + n)

\* characters of a decimal digit and the order of the characters used in keys
Digit(n) == CASE n = 0 -> "0" [] n = 1 -> "1" [] n = 2 -> "2" [] n = 3 -> "3"
              [] n = 4 -> "4" [] n = 5 -> "5" [] n = 6 -> "6" [] n = 7 -> "7"
              [] n = 8 -> "8" [] n = 9 -> "9"

IsDigit(c) == c \in {"0", "1", "2", "3", "4", "5", "6", "7", "8", "9"}

DigitVal(c) == CHOOSE n \in 0..9 : Digit(n) = c

\* code point order of the characters a date string or a month key can hold
Ord(c) == CASE c = "-" -> 45 [] c = "/" -> 47 [] IsDigit(c) -> 48 + DigitVal(c)
            [] OTHER -> 120

RECURSIVE StrLT(_, _)
\* Python str comparison s < t (lexicographic by code point)
StrLT(s, t) ==
    IF t = <<>> THEN FALSE
    ELSE IF s = <<>> THEN TRUE
    ELSE IF Ord(s[1]) # Ord(t[1]) THEN Ord(s[1]) < Ord(t[1])
    ELSE StrLT(Tail(s), Tail(t))

\* date.strftime("%Y-%m"): four digits of the year, a dash, two of the month
strftime_Ym(dt) ==
    << Digit((dt.y \div 1000) % 10), Digit((dt.y \div 100) % 10),
       Digit((dt.y \div 10) % 10), Digit(dt.y % 10), "-",
       Digit(dt.m \div 10), Digit(dt.m % 10) >>

RECURSIVE DigitsVal(_)
\* int(s) of a string of digits
DigitsVal(s) == IF s = <<>> THEN 0
                ELSE DigitsVal(SubSeq(s, 1, Len(s) - 1)) * 10 + DigitVal(s[Len(s)])

AllDigits(s) == \A i \in 1..Len(s) : IsDigit(s[i])

\* positions of the dashes of a string
Dashes(s) == {i \in 1..Len(s) : s[i] = "-"}

ParseFail == [ok |-> FALSE, date |-> Date(0, 0, 0)]

\* strptime that matches the format's regular expression only, and does not
\* check that the fields form a calendar date
strptime_Ymd_RegexOnly(s) ==
    IF Cardinality(Dashes(s)) # 2 THEN ParseFail
    ELSE LET i == CHOOSE k \in Dashes(s) : \A j \in Dashes(s) : k <= j
             j == CHOOSE k \in Dashes(s) : k # i
             ys == SubSeq(s, 1, i - 1)
             ms == SubSeq(s, i + 1, j - 1)
             ds == SubSeq(s, j + 1, Len(s))
         IN  IF ~(AllDigits(ys) /\ AllDigits(ms) /\ AllDigits(ds)) THEN ParseFail
             ELSE IF ~(Len(ys) = 4 /\ Len(ms) \in 1..2 /\ Len(ds) \in 1..2) THEN ParseFail
             ELSE LET y == DigitsVal(ys)
                      m == DigitsVal(ms)
                      d == DigitsVal(ds)
                  IN  IF m \notin 1..12 \/ d \notin 1..31 THEN ParseFail
                      ELSE [ok |-> TRUE, date |-> Date(y, m, d)]

\* datetime.strptime(s, "%Y-%m-%d").date().  The format's regular expression
\* is \d\d\d\d - (1[0-2]|0[1-9]|[1-9]) - (3[01]|[12]\d|0[1-9]|[1-9]) and must
\* match the whole string; the fields must then form a calendar date.  A failure
\* is Python's ValueError.
strptime_Ymd(s) ==
    IF Cardinality(Dashes(s)) # 2 THEN ParseFail
    ELSE LET i == CHOOSE k \in Dashes(s) : \A j \in Dashes(s) : k <= j
             j == CHOOSE k \in Dashes(s) : k # i
             ys == SubSeq(s, 1, i - 1)
             ms == SubSeq(s, i + 1, j - 1)
             ds == SubSeq(s, j + 1, Len(s))
         IN  IF ~(AllDigits(ys) /\ AllDigits(ms) /\ AllDigits(ds)) THEN ParseFail
             ELSE IF ~(Len(ys) = 4 /\ Len(ms) \in 1..2 /\ Len(ds) \in 1..2) THEN ParseFail
             ELSE LET y == DigitsVal(ys)
                      m == DigitsVal(ms)
                      d == DigitsVal(ds)
                  IN  IF m \notin 1..12 \/ d \notin 1..31 THEN ParseFail
                      ELSE IF y < 1 \/ d > DaysInMonth(y, m) THEN ParseFail
                      ELSE [ok |-> TRUE, date |-> Date(y, m, d)]

---------------------------------------------------------------------------
(* database.py: the tables *)

\* a NULL foreign key is written 0 (primary keys start at 1)
EmptyDb == [clients |-> <<>>, users |-> <<>>, projects |-> <<>>,
            time_entries |-> <<>>, invoices |-> <<>>]

\* passlib's pwd_context.hash / pwd_context.verify, taken as a one-way tag
pwd_hash(password) == <<"bcrypt", password>>

pwd_verify(password, hashed) == hashed = pwd_hash(password)

\* session.add + commit of one row: the primary key is the next integer
InsertRow(table, row) == Append(table, [row EXCEPT !.id = Len(table) + 1])

\* session.add_all / a run of session.add, then commit: keys in order of addition
InsertAll(table, rows) ==
    table \o [i \in 1..Len(rows) |-> [rows[i] EXCEPT !.id = Len(table) + i]]

\* relationship() loaders
ProjectOf(d, project_id) == SelectSeq(d.projects, LAMBDA p : p.id = project_id)

ClientOf(d, client_id) == SelectSeq(d.clients, LAMBDA c : c.id = client_id)

\* Project.time_entries
time_entries_of(d, p) == SelectSeq(d.time_entries, LAMBDA e : e.project_id = p.id)

---------------------------------------------------------------------------
(* database.py: init_db and the random module *)

RECURSIVE LcgPow(_)
\* 251^k modulo 32749
LcgPow(k) ==
    IF k = 0 THEN 1
    ELSE IF k % 2 = 0 THEN (LcgPow(k \div 2) * LcgPow(k \div 2)) % 32749
    ELSE (251 * LcgPow(k - 1)) % 32749

RECURSIVE LcgGeo(_)
\* 1 + 251 + ... + 251^(k-1) modulo 32749
LcgGeo(k) ==
    IF k = 0 THEN 0
    ELSE IF k % 2 = 0 THEN (LcgGeo(k \div 2) * (1 + LcgPow(k \div 2))) % 32749
    ELSE (1 + 251 * LcgGeo(k - 1)) % 32749

\* the k-th state of the pseudo-random generator started from `seed`: the
\* linear congruential sequence x' = (251 x + 191) mod 32749 from
\* x0 = (7919 seed + 191) mod 32749, by its closed form.  The random module is
\* a deterministic generator seeded from the environment: the seed is the only
\* free choice, and every draw below is a function of it and of the draw's
\* position in the run.
RandState(seed, k) ==
    (LcgPow(k) * ((seed * 7919 + 191) % 32749) + 191 * LcgGeo(k)) % 32749

\* random.randint(lo, hi) as the k-th draw
randint(seed, k, lo, hi) == lo + (RandState(seed, k) % (hi - lo + 1))

\* random.choice(seq) as the k-th draw
choice(seed, k, seq) == seq[1 + (RandState(seed, k) % Len(seq))]

\* round(random.uniform(1.0, 8.0), 1), in tenths
uniform_tenths(seed, k) == randint(seed, k, 10, 80)

statuses == <<"active", "completed", "on-hold">>

invoice_statuses == <<"draft", "sent", "paid">>

SeedClients ==
    << [id |-> 0, name |-> "TechCorp Inc.", contact_email |-> "contact@techcorp.com"],
       [id |-> 0, name |-> "DesignStudio Pro", contact_email |-> "hello@designstudio.com"],
       [id |-> 0, name |-> "Startup Ventures", contact_email |-> "founders@startup.io"] >>

\* client.name.split()[0]
FirstWord(name) ==
    CASE name = "TechCorp Inc." -> "TechCorp"
      [] name = "DesignStudio Pro" -> "DesignStudio"
      [] name = "Startup Ventures" -> "Startup"
      [] OTHER -> name

SeedUsers(clients) ==
    << [id |-> 0, username |-> "admin", hashed_password |-> pwd_hash("admin"),
        role |-> "admin", client_id |-> 0],
       [id |-> 0, username |-> "freelancer", hashed_password |-> pwd_hash("freelancer"),
        role |-> "freelancer", client_id |-> 0],
       [id |-> 0, username |-> "client", hashed_password |-> pwd_hash("client"),
        role |-> "client", client_id |-> clients[1].id] >>

\* for i in range(5): four draws per project
SeedProjects(clients, seed, today) ==
    [i \in 1..5 |->
        LET k == 4 * (i - 1)
            client == choice(seed, k + 1, clients)
        IN  [id |-> 0,
             name |-> <<"Project", FirstWord(client.name), i>>,
             client_id |-> client.id,
             status |-> choice(seed, k + 2, statuses),
             deadline |-> AddDays(today, randint(seed, k + 3, 10, 60)),
             budget |-> randint(seed, k + 4, 1000, 10000)]]

\* for _ in range(20): three draws per entry
SeedTimeEntries(projects, seed, today) ==
    [i \in 1..20 |->
        LET k == 20 + 3 * (i - 1)
        IN  [id |-> 0,
             project_id |-> choice(seed, k + 1, projects).id,
             date |-> AddDays(today, 0 - randint(seed, k + 2, 0, 30)),
             hours |-> uniform_tenths(seed, k + 3),
             description |-> "Development and testing"]]

\* for i in range(4): four draws per invoice
SeedInvoices(projects, seed, today) ==
    [i \in 1..4 |->
        LET k == 80 + 4 * (i - 1)
        IN  [id |-> 0,
             project_id |-> choice(seed, k + 1, projects).id,
             amount |-> randint(seed, k + 2, 500, 3000),
             date_issued |-> AddDays(today, 0 - randint(seed, k + 3, 0, 20)),
             status |-> choice(seed, k + 4, invoice_statuses)]]

\* a seeding that never finds the store seeded
AlreadySeeded_Never(d) == FALSE

\* "if db.query(User).first(): return"
AlreadySeeded(d) == d.users # <<>>

\* init_db(): the store after the call
init_db(d, seed, today) ==
    IF AlreadySeeded(d) THEN d
    ELSE LET New(old, table) == SubSeq(table, Len(old) + 1, Len(table))
             clients == InsertAll(d.clients, SeedClients)
             cs == New(d.clients, clients)
             users == InsertAll(d.users, SeedUsers(cs))
             projects == InsertAll(d.projects, SeedProjects(cs, seed, today))
             ps == New(d.projects, projects)
             entries == InsertAll(d.time_entries, SeedTimeEntries(ps, seed, today))
             invoices == InsertAll(d.invoices, SeedInvoices(ps, seed, today))
         IN  [clients |-> clients, users |-> users, projects |-> projects,
              time_entries |-> entries, invoices |-> invoices]

---------------------------------------------------------------------------
(* main.py: the session cookie *)

SECRET_KEY == "supersecretkey"

\* max_age=3600*24
max_age == 3600 * 24

\* the signature itsdangerous computes over payload and timestamp with a key
\* (an HMAC, taken to be collision free)
Sign(key, payload, ts) == <<key, payload, ts>>

\* serializer.dumps(username) at time t
dumps(username, t) ==
    [payload |-> username, ts |-> t, sig |-> Sign(SECRET_KEY, username, t)]

NoCookie == [payload |-> "", ts |-> 0 - 1, sig |-> <<>>]

\* loads without max_age: the signature is checked, the age is not
loads_NoMaxAge(token, t) ==
    IF token.sig # Sign(SECRET_KEY, token.payload, token.ts)
    THEN [ok |-> FALSE, error |-> "BadSignature", value |-> ""]
    ELSE [ok |-> TRUE, error |-> "", value |-> token.payload]

\* serializer.loads(token, max_age=...) at time t: BadSignature when the
\* signature does not match, SignatureExpired when the token is older than
\* max_age (or dated in the future)
loads(token, t) ==
    IF token.sig # Sign(SECRET_KEY, token.payload, token.ts)
    THEN [ok |-> FALSE, error |-> "BadSignature", value |-> ""]
    ELSE IF t - token.ts > max_age \/ t - token.ts < 0
    THEN [ok |-> FALSE, error |-> "SignatureExpired", value |-> ""]
    ELSE [ok |-> TRUE, error |-> "", value |-> token.payload]

NoUser == [id |-> 0, username |-> "", hashed_password |-> <<>>, role |-> "",
           client_id |-> 0]

\* db.query(User).filter(User.username == username).first()
UserByName(d, username) ==
    LET found == SelectSeq(d.users, LAMBDA u : u.username = username)
    IN  IF found = <<>> THEN NoUser ELSE found[1]

\* get_current_user: a missing cookie and every exception give None
get_current_user(token, d, t) ==
    IF token = NoCookie THEN NoUser
    ELSE LET r == loads(token, t)
         IN  IF r.ok THEN UserByName(d, r.value) ELSE NoUser

---------------------------------------------------------------------------
(* main.py: responses *)

NoCtx == [template |-> "none"]

Redirect(code, url) == [status |-> code, location |-> url, ctx |-> NoCtx]

\* templates.TemplateResponse(name, context)
TemplateResponse(context) == [status |-> 200, location |-> "", ctx |-> context]

\* raise HTTPException(status_code=code, ...)
HTTPException(code) == [status |-> code, location |-> "", ctx |-> NoCtx]

\* an exception no handler catches: 500 Internal Server Error
Unhandled(exc) == [status |-> 500, location |-> "", ctx |-> [template |-> exc]]

\* login_required: HTTPException 307 with Location /login when there is no user
login_required(user, resp) ==
    IF user = NoUser THEN Redirect(307, "/login") ELSE resp

---------------------------------------------------------------------------
(* main.py: the role-scoped queries *)

\* db.query(Project).filter(Project.client_id == user.client_id).all()
ClientProjects(d, user) ==
    SelectSeq(d.projects, LAMBDA p : p.client_id = user.client_id)

\* "if user.role == 'client': <filtered> else: db.query(Project).all()"
VisibleProjects(d, user) ==
    IF user.role = "client" THEN ClientProjects(d, user) ELSE d.projects

Ids(rows) == {rows[i].id : i \in 1..Len(rows)}

Hours(entries) == SumSeq([i \in 1..Len(entries) |-> entries[i].hours])

Amounts(invoices) == SumSeq([i \in 1..Len(invoices) |-> invoices[i].amount])

\* total_earned that counts every invoice that is not a draft
EarnedInvoices_NotDraft(d, user) ==
    IF user.role = "client"
    THEN SelectSeq(d.invoices, LAMBDA i :
             i.project_id \in Ids(ClientProjects(d, user)) /\ i.status # "draft")
    ELSE SelectSeq(d.invoices, LAMBDA i : i.status # "draft")

\* the invoices a role's total_earned adds up
EarnedInvoices(d, user) ==
    IF user.role = "client"
    THEN SelectSeq(d.invoices, LAMBDA i :
             i.project_id \in Ids(ClientProjects(d, user)) /\ i.status = "paid")
    ELSE SelectSeq(d.invoices, LAMBDA i : i.status = "paid")

\* the invoices a role's pending_invoices counts
PendingInvoices(d, user) ==
    IF user.role = "client"
    THEN SelectSeq(d.invoices, LAMBDA i :
             i.project_id \in Ids(ClientProjects(d, user)) /\ i.status = "sent")
    ELSE SelectSeq(d.invoices, LAMBDA i : i.status # "paid")

\* the condition under which the client branch counts an entry:
\* "if e.date.month == date.today().month"
ClientMonthFilter(e, today) == e.date.m = today.m

RECURSIVE ConcatAll(_)
ConcatAll(ss) == IF ss = <<>> THEN <<>> ELSE ss[1] \o ConcatAll(Tail(ss))

\* the entries a role's total_hours adds up
HoursEntries(d, user, today) ==
    IF user.role = "client"
    THEN LET projects == ClientProjects(d, user)
         IN  SelectSeq(ConcatAll([i \in 1..Len(projects) |->
                                     time_entries_of(d, projects[i])]),
                       LAMBDA e : ClientMonthFilter(e, today))
    ELSE SelectSeq(d.time_entries,
                   LAMBDA e : DateGE(e.date, Date(today.y, today.m, 1)))

\* GET /dashboard
dashboard(d, user, today) ==
    TemplateResponse(
        [template |-> "dashboard.html",
         user |-> user,
         active_projects |->
             Len(SelectSeq(VisibleProjects(d, user), LAMBDA p : p.status = "active")),
         total_hours |-> Hours(HoursEntries(d, user, today)),
         pending_invoices |-> Len(PendingInvoices(d, user)),
         total_earned |-> Amounts(EarnedInvoices(d, user))])

\* GET /projects
projects_page(d, user) ==
    TemplateResponse([template |-> "projects.html", user |-> user,
                      projects |-> VisibleProjects(d, user)])

RECURSIVE InsertDateDesc(_, _)
InsertDateDesc(e, s) ==
    IF s = <<>> THEN <<e>>
    ELSE IF DateLT(s[1].date, e.date) THEN <<e>> \o s
    ELSE <<s[1]>> \o InsertDateDesc(e, Tail(s))

RECURSIVE OrderByDateDesc(_)
\* .order_by(TimeEntry.date.desc()); rows of one date stay in primary-key order
OrderByDateDesc(s) ==
    IF s = <<>> THEN <<>>
    ELSE InsertDateDesc(s[Len(s)], OrderByDateDesc(SubSeq(s, 1, Len(s) - 1)))

\* the entries GET /timelogs lists
VisibleEntries(d, user) ==
    IF user.role = "client"
    THEN SelectSeq(d.time_entries,
                   LAMBDA e : e.project_id \in Ids(ClientProjects(d, user)))
    ELSE d.time_entries

\* GET /timelogs
timelogs_page(d, user) ==
    LET projects == VisibleProjects(d, user)
    IN  TemplateResponse(
            [template |-> "timelogs.html",
             user |-> user,
             entries |-> OrderByDateDesc(VisibleEntries(d, user)),
             projects |-> projects,
             project_totals |->
                 [pid \in Ids(projects) |->
                     Hours(SelectSeq(d.time_entries, LAMBDA e : e.project_id = pid))]])

\* an invoice list that is not scoped to the user's client
VisibleInvoices_Unscoped(d, user) == d.invoices

\* the invoices GET /invoices lists
VisibleInvoices(d, user) ==
    IF user.role = "client"
    THEN SelectSeq(d.invoices,
                   LAMBDA i : i.project_id \in Ids(ClientProjects(d, user)))
    ELSE d.invoices

\* GET /invoices
invoices_page(d, user) ==
    TemplateResponse([template |-> "invoices.html", user |-> user,
                      invoices |-> VisibleInvoices(d, user)])

---------------------------------------------------------------------------
(* main.py: GET /reports *)

\* project_data: one {"name", "hours"} per visible project
project_data_of(d, user) ==
    LET projects == VisibleProjects(d, user)
    IN  [i \in 1..Len(projects) |->
            [name |-> projects[i].name,
             hours |-> Hours(time_entries_of(d, projects[i]))]]

RECURSIVE DictAdd(_, _, _)
\* dict[key] = dict.get(key, 0) + amount, the dict as its items in insertion order
DictAdd(items, key, amount) ==
    IF items = <<>> THEN << [key |-> key, amount |-> amount] >>
    ELSE IF items[1].key = key
    THEN << [items[1] EXCEPT !.amount = @ + amount] >> \o Tail(items)
    ELSE << items[1] >> \o DictAdd(Tail(items), key, amount)

\* the invoices the revenue loops run over:
\* db.query(Invoice).filter(Invoice.status == 'paid').all(), for a non-client
RevenueInvoices(d, user) ==
    IF user.role # "client"
    THEN SelectSeq(d.invoices, LAMBDA i : i.status = "paid")
    ELSE <<>>

RECURSIVE MonthlyRevenue(_)
\* monthly_revenue after the loop over `invoices`
MonthlyRevenue(invoices) ==
    IF invoices = <<>> THEN <<>>
    ELSE LET inv == invoices[Len(invoices)]
         IN  DictAdd(MonthlyRevenue(SubSeq(invoices, 1, Len(invoices) - 1)),
                     strftime_Ym(inv.date_issued), inv.amount)

RECURSIVE ClientRevenue(_, _)
\* client_revenue after the loop over `invoices`, keyed by inv.project.client.name
ClientRevenue(d, invoices) ==
    IF invoices = <<>> THEN <<>>
    ELSE LET inv == invoices[Len(invoices)]
             c_name == ClientOf(d, ProjectOf(d, inv.project_id)[1].client_id)[1].name
         IN  DictAdd(ClientRevenue(d, SubSeq(invoices, 1, Len(invoices) - 1)),
                     c_name, inv.amount)

\* inv.project or inv.project.client is None: the attribute access raises
RevenueRaises(d, invoices) ==
    \E i \in 1..Len(invoices) :
        \/ ProjectOf(d, invoices[i].project_id) = <<>>
        \/ ClientOf(d, ProjectOf(d, invoices[i].project_id)[1].client_id) = <<>>

RECURSIVE InsertMonthAsc(_, _)
InsertMonthAsc(x, s) ==
    IF s = <<>> THEN <<x>>
    ELSE IF StrLT(x.month, s[1].month) THEN <<x>> \o s
    ELSE <<s[1]>> \o InsertMonthAsc(x, Tail(s))

\* monthly_data left in the order the months were first met
SortByMonth_Unsorted(s) == s

RECURSIVE SortByMonth(_)
\* monthly_data.sort(key=lambda x: x['month'])
SortByMonth(s) ==
    IF s = <<>> THEN <<>>
    ELSE InsertMonthAsc(s[Len(s)], SortByMonth(SubSeq(s, 1, Len(s) - 1)))

RECURSIVE InsertAmountDesc(_, _)
InsertAmountDesc(x, s) ==
    IF s = <<>> THEN <<x>>
    ELSE IF x.amount > s[1].amount THEN <<x>> \o s
    ELSE <<s[1]>> \o InsertAmountDesc(x, Tail(s))

RECURSIVE SortByAmountDesc(_)
\* client_data.sort(key=lambda x: x['amount'], reverse=True)
SortByAmountDesc(s) ==
    IF s = <<>> THEN <<>>
    ELSE InsertAmountDesc(s[Len(s)], SortByAmountDesc(SubSeq(s, 1, Len(s) - 1)))

monthly_data_of(d, user) ==
    LET items == MonthlyRevenue(RevenueInvoices(d, user))
    IN  SortByMonth([i \in 1..Len(items) |->
                        [month |-> items[i].key, amount |-> items[i].amount]])

client_data_of(d, user) ==
    LET items == ClientRevenue(d, RevenueInvoices(d, user))
    IN  SortByAmountDesc([i \in 1..Len(items) |->
                             [name |-> items[i].key, amount |-> items[i].amount]])

\* max([d[field] for d in data], default=1)
ChartMax(values) == MaxSeq(values, 1)

\* GET /reports
reports_page(d, user) ==
    IF RevenueRaises(d, RevenueInvoices(d, user)) THEN Unhandled("AttributeError")
    ELSE LET project_data == project_data_of(d, user)
             monthly_data == monthly_data_of(d, user)
             client_data == client_data_of(d, user)
         IN  TemplateResponse(
                 [template |-> "reports.html",
                  user |-> user,
                  project_data |-> project_data,
                  monthly_data |-> monthly_data,
                  client_data |-> client_data,
                  max_hours |->
                      ChartMax([i \in 1..Len(project_data) |-> project_data[i].hours]),
                  max_monthly |->
                      ChartMax([i \in 1..Len(monthly_data) |-> monthly_data[i].amount]),
                  max_client |->
                      ChartMax([i \in 1..Len(client_data) |-> client_data[i].amount])])

---------------------------------------------------------------------------
(* main.py: POST /timelogs, POST /login, GET /logout *)

\* add_timelog without the role check
add_timelog_NoRoleCheck(d, user, form) ==
    LET parsed == strptime_Ymd(form.date)
    IN  IF ~parsed.ok
        THEN [db |-> d, response |-> Unhandled("ValueError")]
        ELSE [db |-> [d EXCEPT !.time_entries =
                         InsertRow(@, [id |-> 0,
                                       project_id |-> form.project_id,
                                       date |-> parsed.date,
                                       hours |-> form.hours,
                                       description |-> form.description])],
              response |-> Redirect(303, "/timelogs")]

\* add_timelog after login_required: the store and the response it leaves.
\* The role check comes first; strptime's ValueError is not caught and is
\* raised while the TimeEntry is being built, before db.add.
add_timelog(d, user, form) ==
    IF user.role = "client"
    THEN [db |-> d, response |-> HTTPException(403)]
    ELSE LET parsed == strptime_Ymd(form.date)
         IN  IF ~parsed.ok
             THEN [db |-> d, response |-> Unhandled("ValueError")]
             ELSE [db |-> [d EXCEPT !.time_entries =
                              InsertRow(@, [id |-> 0,
                                            project_id |-> form.project_id,
                                            date |-> parsed.date,
                                            hours |-> form.hours,
                                            description |-> form.description])],
                   response |-> Redirect(303, "/timelogs")]

\* login: the response and the cookie the browser holds afterwards
login(d, username, password, old, t) ==
    LET user == UserByName(d, username)
    IN  IF user = NoUser \/ ~pwd_verify(password, user.hashed_password)
        THEN [response |-> Redirect(303, "/login?error=Invalid credentials"),
              cookie |-> old]
        ELSE [response |-> Redirect(303, "/dashboard"),
              cookie |-> dumps(username, t)]

\* logout: resp.delete_cookie("session")
logout == [response |-> Redirect(303, "/login"), cookie |-> NoCookie]

---------------------------------------------------------------------------
(* The environment: what the clock, the browser and the users can do *)

\* the dates on which the process may first be started: mid-month, and the
\* last day of a month (the clock then runs into the next month)
StartDates == {Date(2024, 3, 15), Date(2024, 3, 31)}

\* the clock advances a day at a time
TickSeconds == 3600 * 24

\* date.today() at clock t
Today(t) == AddDays(today0, t \div (3600 * 24))

\* date strings a form may carry: an impossible calendar date, a date of the
\* same month one year back, a date in another format
DateStrings ==
    { <<"2","0","2","4","-","0","2","-","3","0">>,
      <<"2","0","2","3","-","0","3","-","1","0">>,
      <<"1","5","/","0","3","/","2","0","2","4">> }

\* project ids a form may carry: a seeded project and a project that does not exist
FormProjectIds == {1, 99}

\* hours a form may carry, in tenths
FormHours == {25}

\* the forms add_timelog may receive, each field at the type its parameter
\* declares (project_id: int, hours: float, description: str, date: str)
Forms ==
    [project_id : FormProjectIds, hours : FormHours, description : {"review"},
     date : DateStrings]

NoForm == [project_id |-> 0, hours |-> 0, description |-> "", date |-> <<>>]

Usernames == {"admin", "freelancer", "client"}

\* what a login form may carry
LoginNames == Usernames \cup {"mallory"}

LoginPasswords(username) == {username, "guess"}

NoRequest == [route |-> "none", cookie |-> NoCookie, at |-> 0, form |-> NoForm]

NoResponse == [status |-> 0, location |-> "", ctx |-> NoCtx]

\* a request as the server receives it: route, the cookie the browser sends,
\* the time of arrival and the form fields
Req(route, form) == [route |-> route, cookie |-> cookie, at |-> now, form |-> form]

CurrentUser == get_current_user(cookie, db, now)

---------------------------------------------------------------------------
(* Initial state and actions *)

Init ==
    /\ db = EmptyDb
    /\ pc = "boot"
    /\ today0 \in StartDates
    /\ now = 0
    /\ cookie = NoCookie
    /\ request = NoRequest
    /\ response = NoResponse

\* "init_db()" at import of main.py, then the application serves
Boot ==
    /\ pc = "boot"
    /\ \E seed \in 0..MaxSeed : db' = init_db(db, seed, Today(now))
    /\ pc' = "serving"
    /\ request' = [NoRequest EXCEPT !.route = "init_db", !.at = now]
    /\ response' = NoResponse
    /\ UNCHANGED <<today0, now, cookie>>

\* the process is stopped and started again; the database file stays
Restart ==
    /\ pc = "serving"
    /\ pc' = "boot"
    /\ request' = NoRequest
    /\ response' = NoResponse
    /\ UNCHANGED <<db, today0, now, cookie>>

\* time passes
Tick ==
    /\ pc = "serving"
    /\ now + TickSeconds <= MaxTicks * TickSeconds
    /\ now' = now + TickSeconds
    /\ request' = NoRequest
    /\ response' = NoResponse
    /\ UNCHANGED <<db, pc, today0, cookie>>

\* the holder of a genuine cookie edits it: another username in the payload,
\* or a fresh timestamp on an expired token; the signature cannot be recomputed
TamperCookie ==
    /\ cookie # NoCookie
    /\ cookie.sig = Sign(SECRET_KEY, cookie.payload, cookie.ts)
    /\ \/ /\ cookie.payload # "admin"
          /\ cookie' = [cookie EXCEPT !.payload = "admin"]
       \/ /\ ~loads(cookie, now).ok
          /\ cookie' = [cookie EXCEPT !.ts = now]
    /\ request' = NoRequest
    /\ response' = NoResponse
    /\ UNCHANGED <<db, pc, today0, now>>

\* someone without the key makes up a cookie
ForgeCookie ==
    /\ cookie = NoCookie
    /\ cookie' = [payload |-> "admin", ts |-> now, sig |-> Sign("guessed", "admin", now)]
    /\ request' = NoRequest
    /\ response' = NoResponse
    /\ UNCHANGED <<db, pc, today0, now>>

\* a GET of a protected page
Get(route, resp) ==
    /\ pc = "serving"
    /\ request' = Req(route, NoForm)
    /\ response' = login_required(CurrentUser, resp)
    /\ UNCHANGED <<db, pc, today0, now, cookie>>

GetDashboard == Get("GET /dashboard", dashboard(db, CurrentUser, Today(now)))

GetProjects == Get("GET /projects", projects_page(db, CurrentUser))

GetTimelogs == Get("GET /timelogs", timelogs_page(db, CurrentUser))

GetInvoices == Get("GET /invoices", invoices_page(db, CurrentUser))

GetReports == Get("GET /reports", reports_page(db, CurrentUser))

\* POST /timelogs
PostTimelog ==
    /\ pc = "serving"
    /\ \E form \in Forms :
          LET user == CurrentUser
              r == add_timelog(db, user, form)
          IN  /\ request' = Req("POST /timelogs", form)
              /\ IF user = NoUser
                 THEN /\ response' = login_required(user, NoResponse)
                      /\ db' = db
                 ELSE /\ Len(r.db.time_entries) <= 20 + MaxPosts
                      /\ response' = r.response
                      /\ db' = r.db
    /\ UNCHANGED <<pc, today0, now, cookie>>

\* POST /login
PostLogin ==
    /\ pc = "serving"
    /\ \E username \in LoginNames : \E password \in LoginPasswords(username) :
          LET r == login(db, username, password, cookie, now)
          IN  /\ request' = Req("POST /login",
                                 [username |-> username, password |-> password])
              /\ response' = r.response
              /\ cookie' = r.cookie
    /\ UNCHANGED <<db, pc, today0, now>>

\* GET /logout
GetLogout ==
    /\ pc = "serving"
    /\ request' = Req("GET /logout", NoForm)
    /\ response' = logout.response
    /\ cookie' = logout.cookie
    /\ UNCHANGED <<db, pc, today0, now>>

Next ==
    \/ Boot
    \/ Restart
    \/ Tick
    \/ TamperCookie
    \/ ForgeCookie
    \/ GetDashboard
    \/ GetProjects
    \/ GetTimelogs
    \/ GetInvoices
    \/ GetReports
    \/ PostTimelog
    \/ PostLogin
    \/ GetLogout

Spec == Init /\ [][Next]_vars

---------------------------------------------------------------------------
(* Vocabulary of the properties, stated on the store and on the request    *)
(* and response of the last step, without the handlers' own operators      *)

ProtectedRoutes ==
    {"GET /dashboard", "GET /projects", "GET /timelogs", "POST /timelogs",
     "GET /invoices", "GET /reports"}

\* the cookie of request r was issued by the server and has not been edited
Genuine(r) ==
    /\ r.cookie # NoCookie
    /\ r.cookie.sig = <<"supersecretkey", r.cookie.payload, r.cookie.ts>>

\* seconds between the issue of r's cookie and r's arrival
CookieAge(r) == r.at - r.cookie.ts

\* the roles of the user whose session request r carries (empty when it
\* carries no valid session)
SessionRoles(r, d) ==
    IF Genuine(r) /\ CookieAge(r) >= 0 /\ CookieAge(r) <= 24 * 3600
    THEN {u.role : u \in {v \in Range(d.users) : v.username = r.cookie.payload}}
    ELSE {}

\* a page was rendered for a user of the given role
Rendered(route, roles) ==
    /\ request.route = route
    /\ response.status = 200
    /\ response.ctx.user.role \in roles

Staff == {"admin", "freelancer"}

\* the projects of user u's client, and their ids
OwnProjects(d, u) == {p \in Range(d.projects) : p.client_id = u.client_id}

OwnIds(d, u) == {p.id : p \in OwnProjects(d, u)}

\* the store with every project of another client, and every time entry and
\* invoice that is not on one of u's client's projects, taken out
OwnStore(d, u) ==
    [d EXCEPT
        !.projects = SelectSeq(@, LAMBDA p : p.client_id = u.client_id),
        !.time_entries = SelectSeq(@, LAMBDA e : e.project_id \in OwnIds(d, u)),
        !.invoices = SelectSeq(@, LAMBDA i : i.project_id \in OwnIds(d, u))]

PaidInvoices(d) == SelectSeq(d.invoices, LAMBDA i : i.status = "paid")

\* the client that owns the project of invoice i (none when it dangles)
OwnerNames(d, i) ==
    {c.name : c \in {c \in Range(d.clients) :
        \E p \in Range(d.projects) : p.id = i.project_id /\ p.client_id = c.id}}

\* month key k is the "YYYY-MM" of date dt
IsMonthOf(k, dt) ==
    /\ Len(k) = 7
    /\ k[5] = "-"
    /\ AllDigits(SubSeq(k, 1, 4)) /\ AllDigits(SubSeq(k, 6, 7))
    /\ DigitsVal(SubSeq(k, 1, 4)) = dt.y
    /\ DigitsVal(SubSeq(k, 6, 7)) = dt.m

\* the date strings of DateStrings that name no calendar date in year-month-day form
NotADate ==
    { <<"2","0","2","4","-","0","2","-","3","0">>,
      <<"1","5","/","0","3","/","2","0","2","4">> }

---------------------------------------------------------------------------
(* Properties *)

\* C1: every page rendered for a client-role user shows only projects of the
\* user's client, and only time entries and invoices on those projects; the
\* page is the one the store without any other client's rows would give, so
\* no other row contributes to it.
C1_ClientIsolation ==
    \A route \in ProtectedRoutes \ {"POST /timelogs"} :
        Rendered(route, {"client"}) =>
            LET U == response.ctx.user
                ctx == response.ctx
                own == OwnStore(db, U)
            IN  CASE route = "GET /projects" ->
                       /\ Range(ctx.projects) \subseteq OwnProjects(db, U)
                       /\ response = projects_page(own, U)
                  [] route = "GET /timelogs" ->
                       /\ Range(ctx.projects) \subseteq OwnProjects(db, U)
                       /\ \A e \in Range(ctx.entries) : e.project_id \in OwnIds(db, U)
                       /\ DOMAIN ctx.project_totals \subseteq OwnIds(db, U)
                       /\ response = timelogs_page(own, U)
                  [] route = "GET /invoices" ->
                       /\ \A i \in Range(ctx.invoices) : i.project_id \in OwnIds(db, U)
                       /\ response = invoices_page(own, U)
                  [] route = "GET /reports" ->
                       /\ \A pd \in Range(ctx.project_data) :
                             \E p \in OwnProjects(db, U) : p.name = pd.name
                       /\ response = reports_page(own, U)
                  [] route = "GET /dashboard" ->
                       response = dashboard(own, U, Today(request.at))

\* C1 witness: a client's invoice page lists some invoices while the store
\* holds invoices of other clients too
C1_Witness ==
    /\ Rendered("GET /invoices", {"client"})
    /\ response.ctx.invoices # <<>>
    /\ Len(response.ctx.invoices) < Len(db.invoices)

\* C2: a POST /timelogs carrying a client-role session is answered 403 and
\* changes no table, whatever the form holds.
C2_ClientPostForbidden ==
    [][ (request'.route = "POST /timelogs" /\ SessionRoles(request', db) = {"client"})
            => (response'.status = 403 /\ db' = db) ]_vars

\* C2 witness: a client posted a form with an impossible date and got 403
C2_Witness ==
    /\ request.route = "POST /timelogs"
    /\ SessionRoles(request, db) = {"client"}
    /\ request.form.date \in NotADate
    /\ response.status = 403

\* C3: a POST /timelogs by an admin or freelancer whose date string is no
\* calendar date is rejected (the ValueError of the parse is the response)
\* and changes no table.
C3_BadDateRejected ==
    [][ ( /\ request'.route = "POST /timelogs"
          /\ SessionRoles(request', db) \subseteq Staff
          /\ SessionRoles(request', db) # {}
          /\ request'.form.date \in NotADate )
            => ( /\ response'.status = 500
                 /\ response'.ctx.template = "ValueError"
                 /\ db' = db ) ]_vars

\* C3 witness: an admin posted 2024-02-30 and was rejected
C3_Witness ==
    /\ request.route = "POST /timelogs"
    /\ SessionRoles(request, db) = {"admin"}
    /\ request.form.date = <<"2","0","2","4","-","0","2","-","3","0">>
    /\ response.status = 500

\* C4: a request to a protected route without a cookie, with an edited or
\* made-up cookie, or with a cookie older than 24 hours is answered by a
\* redirect to /login, with no data, and changes no table.
C4_UnauthenticatedRedirect ==
    [][ ( /\ request'.route \in ProtectedRoutes
          /\ (~Genuine(request') \/ CookieAge(request') > 24 * 3600) )
            => ( /\ response'.status = 307
                 /\ response'.location = "/login"
                 /\ response'.ctx = NoCtx
                 /\ db' = db ) ]_vars

\* C4 witness: a POST /timelogs with a genuine but expired cookie was redirected
C4_Witness ==
    /\ request.route = "POST /timelogs"
    /\ Genuine(request)
    /\ CookieAge(request) > 24 * 3600
    /\ response.status = 307

\* C5: every time entry and every invoice references an existing project.
C5_ReferentialIntegrity ==
    /\ \A e \in Range(db.time_entries) : \E p \in Range(db.projects) : p.id = e.project_id
    /\ \A i \in Range(db.invoices) : \E p \in Range(db.projects) : p.id = i.project_id

\* C6: the chart maxima of /reports are never 0.
C6_ChartMaxNeverZero ==
    (request.route = "GET /reports" /\ response.status = 200) =>
        /\ response.ctx.max_hours # 0
        /\ response.ctx.max_monthly # 0
        /\ response.ctx.max_client # 0

\* C7: a client's dashboard total_hours is the sum of the hours of the time
\* entries on the client's projects dated in today's month of today's year.
C7_ClientHoursThisMonth ==
    Rendered("GET /dashboard", {"client"}) =>
        LET U == response.ctx.user
            today == Today(request.at)
        IN  response.ctx.total_hours =
                Hours(SelectSeq(db.time_entries, LAMBDA e :
                          /\ e.project_id \in OwnIds(db, U)
                          /\ e.date.m = today.m
                          /\ e.date.y = today.y))

\* C8: dashboard total_earned is, for a client, the sum of the amounts of the
\* paid invoices on the client's projects, and for an admin or freelancer the
\* sum of the amounts of all paid invoices.
C8_TotalEarned ==
    Rendered("GET /dashboard", Staff \cup {"client"}) =>
        LET U == response.ctx.user
        IN  response.ctx.total_earned =
                IF U.role = "client"
                THEN Amounts(SelectSeq(db.invoices, LAMBDA i :
                         /\ i.status = "paid"
                         /\ \E p \in Range(db.projects) :
                               p.id = i.project_id /\ p.client_id = U.client_id))
                ELSE Amounts(SelectSeq(db.invoices, LAMBDA i : i.status = "paid"))

\* C8 witness: a client's dashboard shows a positive total that leaves out a
\* paid invoice of another client
C8_Witness ==
    /\ Rendered("GET /dashboard", {"client"})
    /\ response.ctx.total_earned > 0
    /\ response.ctx.total_earned < Amounts(PaidInvoices(db))
    /\ \E i \in Range(db.invoices) : i.status # "paid"

\* C9: in /reports for an admin or freelancer each paid invoice is counted in
\* exactly one monthly_data entry, that of its "YYYY-MM", and in exactly one
\* client_data entry, that of the client owning its project; every entry is
\* the sum of the paid invoices counted in it and of nothing else;
\* monthly_data ascends by month and client_data descends by amount.  For a
\* client both lists are empty.
C9_RevenueRollups ==
    /\ Rendered("GET /reports", {"client"}) =>
          /\ response.ctx.monthly_data = <<>>
          /\ response.ctx.client_data = <<>>
    /\ Rendered("GET /reports", Staff) =>
          LET md == response.ctx.monthly_data
              cd == response.ctx.client_data
              paid == PaidInvoices(db)
          IN  /\ \A i \in Range(paid) :
                    /\ Cardinality({k \in 1..Len(md) : IsMonthOf(md[k].month, i.date_issued)}) = 1
                    /\ Cardinality({k \in 1..Len(cd) : cd[k].name \in OwnerNames(db, i)}) = 1
              /\ \A k \in 1..Len(md) :
                    /\ \E i \in Range(paid) : IsMonthOf(md[k].month, i.date_issued)
                    /\ md[k].amount =
                          Amounts(SelectSeq(paid, LAMBDA i : IsMonthOf(md[k].month, i.date_issued)))
              /\ \A k \in 1..Len(cd) :
                    /\ \E i \in Range(paid) : cd[k].name \in OwnerNames(db, i)
                    /\ cd[k].amount =
                          Amounts(SelectSeq(paid, LAMBDA i : cd[k].name \in OwnerNames(db, i)))
              /\ \A k \in 1..(Len(md) - 1) : StrLT(md[k].month, md[k + 1].month)
              /\ \A k \in 1..(Len(cd) - 1) : cd[k].amount >= cd[k + 1].amount

\* C9 witness: an admin's report with two months and two clients, while an
\* unpaid invoice exists
C9_Witness ==
    /\ Rendered("GET /reports", Staff)
    /\ Len(response.ctx.monthly_data) >= 2
    /\ Len(response.ctx.client_data) >= 2
    /\ \E i \in Range(db.invoices) : i.status # "paid"

\* C10: init_db on the empty store creates exactly 3 clients, 3 users (one
\* admin, one freelancer, one client), 5 projects, 20 time entries and 4
\* invoices; on a store that holds a user it inserts nothing.
C10_SeedOnce ==
    [][ (pc = "boot" /\ pc' = "serving") =>
            IF db.users = <<>>
            THEN db = EmptyDb =>
                    /\ Len(db'.clients) = 3
                    /\ Len(db'.users) = 3
                    /\ \A role \in Staff \cup {"client"} :
                          Cardinality({k \in 1..3 : db'.users[k].role = role}) = 1
                    /\ Len(db'.projects) = 5
                    /\ Len(db'.time_entries) = 20
                    /\ Len(db'.invoices) = 4
            ELSE db' = db ]_vars

\* C10 witness: init_db has run on a store that already held the seed and a
\* posted time entry, and the counts are those of one seeding plus the post
C10_Witness ==
    /\ request.route = "init_db"
    /\ Len(db.clients) = 3 /\ Len(db.users) = 3 /\ Len(db.projects) = 5
    /\ Len(db.time_entries) = 21 /\ Len(db.invoices) = 4

====
